---- MODULE Spec2Model ----
(***************************************************************************)
(* The behaviour-tree compiler of src/src/behavior/tree.rs:                *)
(* BehaviourNode::compile / compile_inner flatten an authored tree into a  *)
(* stream of 32-bit words, resolving Decorator / Executor names against    *)
(* the two registries of a BehaviourContext.                               *)
(*                                                                         *)
(* Numbers: every u32 / usize value the model handles is below 2^31 (the   *)
(* inputs are drawn from sets that keep it so), hence the casts `as u32`   *)
(* and `as usize` of the source do not change a value here.                *)
(***************************************************************************)
EXTENDS Integers, Sequences, FiniteSets, TLC

(***************************************************************************)
(* Bounds of the model.                                                    *)
(***************************************************************************)
\* Largest number of nodes below the outermost node of an enumerated tree.
MaxNodes == 4
\* Child count of the wide trees Root -> C(WideCount x Executor).
WideCount == 4096
\* Handle of the first named entry of a populated registry (the number of
\* entries registered before it).
HandleBases == {0, 4095, 4096, 16777216}

(***************************************************************************)
(* Constants of tree.rs.                                                   *)
(***************************************************************************)
VecTypeBITS == 32
NODE_SIZE == 64 \div VecTypeBITS
ID_MASK == 61440   \* 0xF000
\* The shift that places a tag in the high byte: (ID as VecType) << 24.
TAG_SHIFT == 24
SEQUENCE_ID == 1
FALLBACK_ID == 2
PARALLEL_ID == 3
DECORATOR_ID == 4
EXECUTOR_ID == 5

(***************************************************************************)
(* Bit operations on unsigned values.                                      *)
(***************************************************************************)
RECURSIVE BitAnd(_, _)
BitAnd(x, y) ==
    IF x = 0 \/ y = 0 THEN 0
    ELSE (x % 2) * (y % 2) + 2 * BitAnd(x \div 2, y \div 2)

RECURSIVE BitOr(_, _)
BitOr(x, y) ==
    IF x = 0 THEN y
    ELSE IF y = 0 THEN x
    ELSE (IF x % 2 = 1 \/ y % 2 = 1 THEN 1 ELSE 0)
         + 2 * BitOr(x \div 2, y \div 2)

\* x & !m : the bits of x that are not bits of m.
BitAndNot(x, m) == x - BitAnd(x, m)

\* x << n, for values that stay inside the word.
Shl(x, n) == x * (2 ^ n)

(***************************************************************************)
(* Identifier (identifier.rs): the pair (scope, id).                       *)
(***************************************************************************)
Identifier(scope, id) == [scope |-> scope, id |-> id]
DEFAULT_NAMESPACE == "game"
EXEC == Identifier(DEFAULT_NAMESPACE, "exec")
DECORATE == Identifier(DEFAULT_NAMESPACE, "decorate")
EXTRA == Identifier(DEFAULT_NAMESPACE, "other")
\* Placeholder in the name field of a node that has no name.
NoName == Identifier("", "")

(***************************************************************************)
(* BehaviourNode (tree.rs): one record shape for the six variants.         *)
(* Root and Decorator hold their single child in children.                 *)
(***************************************************************************)
Root(child) == [kind |-> "Root", name |-> NoName, children |-> <<child>>]
Sequence(children) == [kind |-> "Sequence", name |-> NoName, children |-> children]
Fallback(children) == [kind |-> "Fallback", name |-> NoName, children |-> children]
Parallel(children) == [kind |-> "Parallel", name |-> NoName, children |-> children]
Decorator(name, child) == [kind |-> "Decorator", name |-> name, children |-> <<child>>]
Executor(id) == [kind |-> "Executor", name |-> id, children |-> <<>>]

ControlKinds == {"Sequence", "Fallback", "Parallel"}
Control(kind, children) == [kind |-> kind, name |-> NoName, children |-> children]

(***************************************************************************)
(* The authored trees the model compiles: every tree of at most MaxNodes   *)
(* nodes, alone and wrapped in Root, and the wide trees.                   *)
(***************************************************************************)
RECURSIVE TreesOfSize(_), ChildLists(_)
\* The sequences of trees whose sizes add up to s.
ChildLists(s) ==
    IF s = 0 THEN {<<>>}
    ELSE UNION { { <<t>> \o rest : t \in TreesOfSize(k), rest \in ChildLists(s - k) }
                 : k \in 1..s }

TreesOfSize(n) ==
    (IF n = 1 THEN {Executor(EXEC)} ELSE {})
    \cup { Control(k, cs) : k \in ControlKinds, cs \in ChildLists(n - 1) }
    \cup (IF n >= 2
          THEN { Decorator(DECORATE, c) : c \in TreesOfSize(n - 1) }
               \cup { Root(c) : c \in TreesOfSize(n - 1) }
          ELSE {})

TreesUpTo(n) == UNION { TreesOfSize(k) : k \in 1..n }

WideTrees == { Root(Control(k, [i \in 1..WideCount |-> Executor(EXEC)])) : k \in ControlKinds }

Inputs == TreesUpTo(MaxNodes) \cup { Root(c) : c \in TreesUpTo(MaxNodes) } \cup WideTrees

(***************************************************************************)
(* Registry (registry.rs).  keys is the tail of the key vector; pad is    *)
(* the number of entries registered before keys[1], under identifiers no   *)
(* tree uses, so that the entry keys[i] has index pad + i - 1.             *)
(***************************************************************************)
\* The value registered under every key of a context: a function pointer.
Callback == "fn"

Registry(pad, keys) ==
    [pad |-> pad, keys |-> keys, values |-> [i \in 1..Len(keys) |-> Callback]]

None == [some |-> FALSE, idx |-> 0]
Some(idx) == [some |-> TRUE, idx |-> idx]

\* Registry::get_handle: the index of the first key equal to id.
get_handle(reg, id) ==
    IF \E i \in 1..Len(reg.keys) : reg.keys[i] = id
    THEN Some(reg.pad + (CHOOSE i \in 1..Len(reg.keys) :
                            /\ reg.keys[i] = id
                            /\ \A j \in 1..(i - 1) : reg.keys[j] # id) - 1)
    ELSE None

\* RegistryHandle::value
value(handle) == handle.idx

\* A registry with its values: keys[i] is registered with values[i].
RegistryOf(keys, values) == [pad |-> 0, keys |-> keys, values |-> values]

\* Registry::new
RegistryNew == RegistryOf(<<>>, <<>>)

\* Option<&T> returned by get and get_direct.
NoValue == [some |-> FALSE, val |-> 0]
SomeValue(v) == [some |-> TRUE, val |-> v]

\* Registry::contains: self.keys.contains(&id)
contains(reg, id) == \E i \in 1..Len(reg.keys) : reg.keys[i] = id

\* The value of the entry at index idx < pad.  The entries in front of
\* keys[1] are registered with values of their own, told apart by index.
PadValue(idx) == 1000 + idx

\* Registry::get: self.values.get(handle.idx).  The value vector holds the
\* pad entries at the indices 0..pad-1 and values[i] at index pad + i - 1.
get(reg, handle) ==
    LET i == handle.idx - reg.pad + 1
    IN  IF handle.idx < reg.pad THEN SomeValue(PadValue(handle.idx))
        ELSE IF i \in 1..Len(reg.values) THEN SomeValue(reg.values[i])
        ELSE NoValue

\* Registry::get_direct: get_handle(id).and_then(|handle| get(handle))
get_direct(reg, id) ==
    LET handle == get_handle(reg, id)
    IN  IF handle.some THEN get(reg, handle) ELSE NoValue

\* Variant: insert pushes without looking for the key.
insert_Unchecked(reg, id, v) ==
    [reg |-> [reg EXCEPT !.keys = Append(reg.keys, id),
                         !.values = Append(reg.values, v)],
     result |-> "Ok"]

\* Registry::insert: the registry afterwards and the Result returned.
insert(reg, id, v) ==
    IF ~contains(reg, id)
    THEN [reg |-> [reg EXCEPT !.keys = Append(reg.keys, id),
                              !.values = Append(reg.values, v)],
          result |-> "Ok"]
    ELSE [reg |-> reg, result |-> "EntryAlreadyExists"]

\* Variant: clear empties the keys and keeps the values.
clear_KeysOnly(reg) == [reg EXCEPT !.pad = 0, !.keys = <<>>]

\* Registry::clear
clear(reg) == [reg EXCEPT !.pad = 0, !.keys = <<>>, !.values = <<>>]

(***************************************************************************)
(* BehaviourContext (context.rs): the two registries.                      *)
(***************************************************************************)
BehaviourContext(executors, decorators) ==
    [executors |-> executors, decorators |-> decorators]

\* Variant: a name missing from the executor registry is looked up among the
\* decorators.
get_executor_handle_AnyRegistry(ctx, id) ==
    IF get_handle(ctx.executors, id).some
    THEN get_handle(ctx.executors, id)
    ELSE get_handle(ctx.decorators, id)

get_executor_handle(ctx, id) == get_handle(ctx.executors, id)

get_decorator_handle(ctx, id) == get_handle(ctx.decorators, id)

\* BehaviourContext::register_executor: the context afterwards and the
\* Result returned.
register_executor(ctx, id, handle) ==
    LET r == insert(ctx.executors, id, handle)
    IN  [ctx |-> [ctx EXCEPT !.executors = r.reg], result |-> r.result]

\* BehaviourContext::register_decorator
register_decorator(ctx, id, decorator) ==
    LET r == insert(ctx.decorators, id, decorator)
    IN  [ctx |-> [ctx EXCEPT !.decorators = r.reg], result |-> r.result]

\* BehaviourContext::clear
clear_context(ctx) ==
    [ctx EXCEPT !.executors = clear(ctx.executors),
                !.decorators = clear(ctx.decorators)]

\* BehaviourContext::new
EmptyContext == BehaviourContext(Registry(0, <<>>), Registry(0, <<>>))
\* "exec" registered as an executor, "decorate" as the second decorator.
RegisteredContext(pad) ==
    BehaviourContext(Registry(pad, <<EXEC>>), Registry(pad, <<EXTRA, DECORATE>>))
\* Each name registered only in the registry of the other kind.
SwappedContext ==
    BehaviourContext(Registry(0, <<DECORATE>>), Registry(0, <<EXEC>>))

Contexts ==
    { RegisteredContext(p) : p \in HandleBases } \cup {EmptyContext, SwappedContext}

(***************************************************************************)
(* Result<BehaviourTree, TreeCompilationError>.                            *)
(***************************************************************************)
Err(kind) == [ok |-> FALSE, err |-> kind, id |-> NoName, registry_index |-> 0]
ErrId(kind, id) == [ok |-> FALSE, err |-> kind, id |-> id, registry_index |-> 0]
UnencodableRegistryHandle(id, registry_index) ==
    [ok |-> FALSE, err |-> "UnencodableRegistryHandle", id |-> id,
     registry_index |-> registry_index]
Ok == [ok |-> TRUE, err |-> "None", id |-> NoName, registry_index |-> 0]
Pending == Err("Pending")

\* BehaviourTree { code, node_count } (its context is counted in strong).
BehaviourTree(code, node_count) == [code |-> code, node_count |-> node_count]
NoTree == BehaviourTree(<<>>, 0)

(***************************************************************************)
(* Identifier::from (identifier.rs).  A String is the sequence of its      *)
(* characters, each a one-character string.                                *)
(***************************************************************************)
MaxLen == 4
Alphabet == {":", "a", "b"}

DIVIDER == ":"
DEFAULT_ID == <<"u", "n", "k", "n", "o", "w", "n">>
\* DEFAULT_NAMESPACE as a String
DEFAULT_NAMESPACE_CHARS == <<"g", "a", "m", "e">>

Strings == UNION { [1..n -> Alphabet] : n \in 0..MaxLen }

\* str::starts_with with a one-character pattern
starts_with(s, pat) == Len(s) >= 1 /\ s[1] = pat

\* str::contains with a one-character pattern
str_contains(s, pat) == \E i \in 1..Len(s) : s[i] = pat

\* str::find: the position of the first pat in s, 0 when there is none.
find(s, pat) ==
    IF str_contains(s, pat)
    THEN CHOOSE i \in 1..Len(s) : s[i] = pat /\ \A j \in 1..(i - 1) : s[j] # pat
    ELSE 0

RECURSIVE replacen_All(_, _, _)
\* Variant: every occurrence of pat is removed, whatever count is.
replacen_All(s, pat, count) ==
    IF s = <<>> THEN s
    ELSE IF Head(s) = pat THEN replacen_All(Tail(s), pat, count)
    ELSE <<Head(s)>> \o replacen_All(Tail(s), pat, count)

RECURSIVE replacen(_, _, _)
\* str::replacen(pat, "", count): the first count occurrences of pat removed.
replacen(s, pat, count) ==
    IF count = 0 \/ s = <<>> THEN s
    ELSE IF Head(s) = pat THEN replacen(Tail(s), pat, count - 1)
    ELSE <<Head(s)>> \o replacen(Tail(s), pat, count)

RECURSIVE split(_, _)
\* str::split(pat).collect(): the pieces between the occurrences of pat.
split(s, pat) ==
    LET k == find(s, pat)
    IN  IF k = 0 THEN <<s>>
        ELSE <<SubSeq(s, 1, k - 1)>> \o split(SubSeq(s, k + 1, Len(s)), pat)

RECURSIVE join(_, _)
\* [&str]::join(sep)
join(parts, sep) ==
    IF parts = <<>> THEN <<>>
    ELSE IF Len(parts) = 1 THEN parts[1]
    ELSE parts[1] \o <<sep>> \o join(Tail(parts), sep)

\* impl From<String> for Identifier
From(string) ==
    LET cleaned == IF ~starts_with(string, DIVIDER)
                   THEN string
                   ELSE replacen(string, DIVIDER, 1)
    IN  IF str_contains(cleaned, DIVIDER)
        THEN LET parts == split(cleaned, DIVIDER)
                 scope == parts[1]
                 id == join(Tail(parts), "_")
             IN  Identifier(scope, IF id # <<>> THEN id ELSE DEFAULT_ID)
        ELSE Identifier(DEFAULT_NAMESPACE_CHARS, cleaned)

\* No Identifier built yet.
NoIdent == Identifier(<<>>, <<>>)

(***************************************************************************)
(* Bounds and inputs of the lifecycle and of the registry.                 *)
(***************************************************************************)
MaxTrees == 2
MaxLifeNodes == 2
MaxEntries == 3
MaxRegistered == 2

\* The trees compiled one after another against one context.
LifeInputs == TreesUpTo(MaxLifeNodes) \cup { Root(c) : c \in TreesUpTo(MaxLifeNodes) }

RegIds == {EXEC, DECORATE, EXTRA}
\* The names the owner registers in a context between compile calls.
ContextIds == {EXEC, DECORATE}
RegValues == {12, 13}
RegHandles == { Some(i) : i \in 0..MaxEntries }

\* No call made on the registry yet.
NoOp == [op |-> "new", id |-> EXEC, arg |-> 0, result |-> "Ok"]
RegOp(op, id, arg, res) == [op |-> op, id |-> id, arg |-> arg, result |-> res]

(***************************************************************************)
(* State.                                                                  *)
(***************************************************************************)
VARIABLES
    input,        \* the authored tree compile is called on (self)
    context,      \* the BehaviourContext the Weak reference points at
    strong,       \* strong count of the context's Rc (0: already released)
    pc,           \* "call" | "loop" | "done"
    nodes,        \* compile_inner: the work list
    code,         \* compile_inner: the words emitted so far
    node_offset,  \* compile_inner: node_offset
    node_count,   \* compile_inner: node_count
    result,       \* what compile returned
    tree,         \* the BehaviourTree returned with Ok
    paths,        \* for each entry of nodes, its position in the authored tree
    emitted,      \* for each emitted pair, the node it encodes
    owner,        \* TRUE while the Rc the context was created with is held
    trees,        \* number of returned BehaviourTrees not yet dropped
    registry,     \* a Registry<T> operated on directly
    regop,        \* the last call made on registry, with what it returned
    text,         \* the String handed to Identifier::from
    ident         \* the Identifier it returned

\* The variables of the registry and of the identifier parser.
registryVars == <<registry, regop>>
identVars == <<text, ident>>

vars == <<input, context, strong, pc, nodes, code, node_offset, node_count,
          result, tree, paths, emitted, owner, trees, registryVars, identVars>>

\* The record kept for an emitted pair: where the node sits in the authored
\* tree (child indices from Root's child down), its variant, and the operand
\* the node asked for (child count, or the resolved handle value).
Emitted(path, kind, operand) == [path |-> path, kind |-> kind, operand |-> operand]

\* No call made on a registry, no string parsed.
RegistryIdle == registry = RegistryNew /\ regop = NoOp
IdentIdle == text = <<>> /\ ident = NoIdent

Init ==
    /\ input \in Inputs
    /\ \/ strong = 1 /\ context \in Contexts
       \/ strong = 0 /\ context = EmptyContext
    /\ owner = (strong = 1)
    /\ trees = 0
    /\ pc = "call"
    /\ nodes = <<>>
    /\ code = <<>>
    /\ node_offset = 0
    /\ node_count = 0
    /\ result = Pending
    /\ tree = NoTree
    /\ paths = <<>>
    /\ emitted = <<>>
    /\ RegistryIdle
    /\ IdentIdle

(***************************************************************************)
(* BehaviourNode::compile and the head of compile_inner (lines 37-59).     *)
(***************************************************************************)
\* match self { Root(child) => ..., _ => Err(InitialNonRootNode) }
IsRoot(node) == node.kind = "Root"

\* Variant: the result of upgrade() is used without the is_none() check.
UpgradeFails_Unchecked == FALSE

\* context.upgrade().is_none()
UpgradeFails == strong = 0

\* Variant: the upgraded Rc outlives the return.
Return_KeepsHold(e, held) ==
    /\ result' = e
    /\ pc' = "done"
    /\ strong' = strong

\* A return with Err: the locals are dropped.  held is TRUE when the
\* upgraded Rc is among them.
Return(e, held) ==
    /\ result' = e
    /\ pc' = "done"
    /\ strong' = IF held THEN strong - 1 ELSE strong

\* Variant: the context is upgraded before self is matched against Root.
Compile_UpgradeFirst ==
    /\ pc = "call"
    /\ IF UpgradeFails
       THEN /\ Return(Err("NonExistentContext"), FALSE)
            /\ UNCHANGED <<nodes, paths>>
       ELSE IF ~IsRoot(input)
       THEN /\ Return(Err("InitialNonRootNode"), FALSE)
            /\ UNCHANGED <<nodes, paths>>
       ELSE /\ strong' = strong + 1
            /\ nodes' = <<input.children[1]>>
            /\ paths' = << <<>> >>
            /\ pc' = "loop"
            /\ UNCHANGED result
    /\ UNCHANGED <<owner, trees, registryVars, identVars, input, context, code, node_offset, node_count, tree, emitted>>

Compile ==
    /\ pc = "call"
    /\ IF ~IsRoot(input)
       THEN /\ Return(Err("InitialNonRootNode"), FALSE)
            /\ UNCHANGED <<nodes, paths>>
       ELSE IF UpgradeFails
       THEN /\ Return(Err("NonExistentContext"), FALSE)
            /\ UNCHANGED <<nodes, paths>>
       ELSE /\ strong' = strong + 1
            /\ nodes' = <<input.children[1]>>
            /\ paths' = << <<>> >>
            /\ pc' = "loop"
            /\ UNCHANGED result
    /\ UNCHANGED <<owner, trees, registryVars, identVars, input, context, code, node_offset, node_count, tree, emitted>>

(***************************************************************************)
(* One iteration of the while loop (lines 61-159).                         *)
(***************************************************************************)
\* nodes.pop()
Top == nodes[Len(nodes)]
Rest == SubSeq(nodes, 1, Len(nodes) - 1)
TopPath == paths[Len(paths)]
RestPaths == SubSeq(paths, 1, Len(paths) - 1)

Popping(kind) == pc = "loop" /\ Len(nodes) > 0 /\ Top.kind = kind

\* Variant: the children are moved to the work list last child first, so that
\* they are popped in authored order.
VecAppend_Reversed(dst, other) ==
    [dst |-> dst \o [i \in 1..Len(other) |-> other[Len(other) + 1 - i]],
     other |-> <<>>]

\* Vec::append(&mut self, other): moves every element, leaving other empty.
VecAppend(dst, other) == [dst |-> dst \o other, other |-> <<>>]

\* child_count & !ID_MASK != child_count
TooManyChildNodes(child_count) == BitAndNot(child_count, ID_MASK) # child_count

\* (handle_value as u32) & !ID_MASK
MaskedHandle(handle_value) == BitAndNot(handle_value, ID_MASK)

\* (node_offset + nodes.len() * NODE_SIZE) as u32
ChildOffset(offset, pending) == offset + pending * NODE_SIZE

\* An error return from inside the loop.
Fail(e) ==
    /\ Return(e, TRUE)
    /\ nodes' = Rest
    /\ paths' = RestPaths
    /\ UNCHANGED <<owner, trees, registryVars, identVars, input, context, code, node_offset, node_count, tree, emitted>>

\* Self::Root(_) => return Err(RootNodeInTree)
StepRoot ==
    /\ Popping("Root")
    /\ Fail(Err("RootNodeInTree"))

\* Variant: a node with zero children is dropped from the work list but still
\* counted (node_count += 1 placed after the if).
ControlArm_CountsPruned(ID, appends) ==
    LET children == Top.children
        child_count == Len(children)
        first == VecAppend(Rest, children)
        last == IF appends = 2 THEN VecAppend(first.dst, first.other) ELSE first
        childPaths == [i \in 1..Len(children) |-> Append(TopPath, i)]
    IN  IF Len(children) > 0
        THEN IF TooManyChildNodes(child_count)
             THEN Fail(Err("TooManyChildNodes"))
             ELSE /\ code' = code \o << BitOr(Shl(ID, TAG_SHIFT), child_count),
                                        ChildOffset(node_offset + NODE_SIZE, Len(Rest)) >>
                  /\ node_offset' = node_offset + NODE_SIZE
                  /\ nodes' = last.dst
                  /\ paths' = RestPaths \o childPaths
                  /\ node_count' = node_count + 1
                  /\ emitted' = Append(emitted, Emitted(TopPath, Top.kind, child_count))
                  /\ UNCHANGED <<owner, trees, registryVars, identVars, input, context, strong, pc, result, tree>>
        ELSE /\ nodes' = Rest
             /\ paths' = RestPaths
             /\ node_count' = node_count + 1
             /\ UNCHANGED <<owner, trees, registryVars, identVars, input, context, strong, pc, code, node_offset,
                            result, tree, emitted>>

\* The arm of a Sequence / Fallback / Parallel node; appends is the number
\* of nodes.append(&mut children) calls the arm makes.
ControlArm(ID, appends) ==
    LET children == Top.children
        child_count == Len(children)
        first == VecAppend(Rest, children)
        last == IF appends = 2 THEN VecAppend(first.dst, first.other) ELSE first
        childPaths == [i \in 1..Len(children) |-> Append(TopPath, i)]
    IN  IF Len(children) > 0
        THEN IF TooManyChildNodes(child_count)
             THEN Fail(Err("TooManyChildNodes"))
             ELSE /\ code' = code \o << BitOr(Shl(ID, TAG_SHIFT), child_count),
                                        ChildOffset(node_offset + NODE_SIZE, Len(Rest)) >>
                  /\ node_offset' = node_offset + NODE_SIZE
                  /\ nodes' = last.dst
                  /\ paths' = RestPaths \o childPaths
                  /\ node_count' = node_count + 1
                  /\ emitted' = Append(emitted, Emitted(TopPath, Top.kind, child_count))
                  /\ UNCHANGED <<owner, trees, registryVars, identVars, input, context, strong, pc, result, tree>>
        ELSE /\ nodes' = Rest
             /\ paths' = RestPaths
             /\ UNCHANGED <<owner, trees, registryVars, identVars, input, context, strong, pc, code, node_offset,
                            node_count, result, tree, emitted>>

StepSequence == Popping("Sequence") /\ ControlArm(SEQUENCE_ID, 1)

StepFallback == Popping("Fallback") /\ ControlArm(FALLBACK_ID, 2)

StepParallel == Popping("Parallel") /\ ControlArm(PARALLEL_ID, 1)

StepDecorator ==
    /\ Popping("Decorator")
    /\ LET name == Top.name
           child == Top.children[1]
           handle == get_decorator_handle(context, name)
           handle_value == value(handle)
           masked_handle == MaskedHandle(handle_value)
       IN  IF handle.some
           THEN IF masked_handle # handle_value
                THEN Fail(UnencodableRegistryHandle(name, handle_value))
                ELSE /\ node_offset' = node_offset + NODE_SIZE
                     /\ code' = code \o << BitOr(masked_handle, Shl(DECORATOR_ID, TAG_SHIFT)),
                                           ChildOffset(node_offset + NODE_SIZE, Len(Rest)) >>
                     /\ nodes' = Append(Rest, child)
                     /\ paths' = Append(RestPaths, Append(TopPath, 1))
                     /\ node_count' = node_count + 1
                     /\ emitted' = Append(emitted, Emitted(TopPath, "Decorator", handle_value))
                     /\ UNCHANGED <<owner, trees, registryVars, identVars, input, context, strong, pc, result, tree>>
           ELSE Fail(ErrId("UnknownDecorator", name))

StepExecutor ==
    /\ Popping("Executor")
    /\ LET id == Top.name
           handle == get_executor_handle(context, id)
           handle_value == value(handle)
           masked_handle == MaskedHandle(handle_value)
       IN  IF handle.some
           THEN IF masked_handle # handle_value
                THEN Fail(UnencodableRegistryHandle(id, handle_value))
                ELSE /\ node_offset' = node_offset + NODE_SIZE
                     /\ code' = code \o << BitOr(masked_handle, Shl(EXECUTOR_ID, TAG_SHIFT)), 0 >>
                     /\ nodes' = Rest
                     /\ paths' = RestPaths
                     /\ node_count' = node_count + 1
                     /\ emitted' = Append(emitted, Emitted(TopPath, "Executor", handle_value))
                     /\ UNCHANGED <<owner, trees, registryVars, identVars, input, context, strong, pc, result, tree>>
           ELSE Fail(ErrId("UnknownExecutor", id))

(***************************************************************************)
(* The end of compile_inner (lines 160-168).                               *)
(***************************************************************************)
\* Variant: node_count >= 0.
HasNodes_NonNegative(count) == count >= 0

\* node_count > 0
HasNodes(count) == count > 0

Finish ==
    /\ pc = "loop"
    /\ Len(nodes) = 0
    /\ IF HasNodes(node_count)
       THEN /\ result' = Ok
            /\ tree' = BehaviourTree(code, node_count)
            /\ trees' = trees + 1
            /\ pc' = "done"
            /\ UNCHANGED strong
       ELSE /\ Return(Err("NoNodes"), TRUE)
            /\ UNCHANGED <<tree, trees>>
    /\ UNCHANGED <<owner, registryVars, identVars, input, context, nodes, code, node_offset, node_count, paths, emitted>>

Next ==
    \/ Compile
    \/ StepRoot
    \/ StepSequence
    \/ StepFallback
    \/ StepParallel
    \/ StepDecorator
    \/ StepExecutor
    \/ Finish

Spec == Init /\ [][Next]_vars

(***************************************************************************)
(* The life of one context: compile calls one after another, each         *)
(* returned tree kept until it is dropped, and the Rc the context was      *)
(* created with dropped at any moment between two calls.                   *)
(***************************************************************************)
compileVars == <<input, pc, nodes, code, node_offset, node_count, result, tree,
                 paths, emitted>>

InitLife ==
    /\ input \in LifeInputs
    /\ context \in {EmptyContext, RegisteredContext(0)}
    /\ strong = 1
    /\ owner = TRUE
    /\ trees = 0
    /\ pc = "call"
    /\ nodes = <<>>
    /\ code = <<>>
    /\ node_offset = 0
    /\ node_count = 0
    /\ result = Pending
    /\ tree = NoTree
    /\ paths = <<>>
    /\ emitted = <<>>
    /\ RegistryIdle
    /\ IdentIdle

\* The caller compiles another authored tree against the same context.
Call ==
    /\ pc = "done"
    /\ trees < MaxTrees
    /\ input' \in LifeInputs
    /\ pc' = "call"
    /\ nodes' = <<>>
    /\ code' = <<>>
    /\ node_offset' = 0
    /\ node_count' = 0
    /\ result' = Pending
    /\ tree' = NoTree
    /\ paths' = <<>>
    /\ emitted' = <<>>
    /\ UNCHANGED <<context, strong, owner, trees, registryVars, identVars>>

\* The caller drops the Rc the context was created with.
DropOwner ==
    /\ pc # "loop"
    /\ owner
    /\ owner' = FALSE
    /\ strong' = strong - 1
    /\ UNCHANGED <<context, trees, compileVars, registryVars, identVars>>

\* The caller drops a BehaviourTree, and with it the Rc in its context field.
DropTree ==
    /\ pc # "loop"
    /\ trees > 0
    /\ trees' = trees - 1
    /\ strong' = strong - 1
    /\ UNCHANGED <<context, owner, compileVars, registryVars, identVars>>

\* Rc::get_mut on the original Rc gives the context: no other Rc and no
\* Weak exists.  The Weak handed to compile exists from the call until
\* compile returns.
GetMut == pc = "done" /\ owner /\ strong = 1

\* The owner registers an executor between two compile calls.  The call
\* returns Ok when the context changes, EntryAlreadyExists when it does not.
RegisterExecutor ==
    \E id \in ContextIds :
        /\ GetMut
        /\ Len(context.executors.keys) < MaxRegistered
        /\ context' = register_executor(context, id, Callback).ctx
        /\ UNCHANGED <<strong, owner, trees, compileVars, registryVars, identVars>>

\* The owner registers a decorator between two compile calls.
RegisterDecorator ==
    \E id \in ContextIds :
        /\ GetMut
        /\ Len(context.decorators.keys) < MaxRegistered
        /\ context' = register_decorator(context, id, Callback).ctx
        /\ UNCHANGED <<strong, owner, trees, compileVars, registryVars, identVars>>

\* The owner clears the context between two compile calls.
ClearContext ==
    /\ GetMut
    /\ context' = clear_context(context)
    /\ UNCHANGED <<strong, owner, trees, compileVars, registryVars, identVars>>

NextLife ==
    \/ Compile
    \/ StepRoot
    \/ StepSequence
    \/ StepFallback
    \/ StepParallel
    \/ StepDecorator
    \/ StepExecutor
    \/ Finish
    \/ Call
    \/ DropOwner
    \/ DropTree
    \/ RegisterExecutor
    \/ RegisterDecorator
    \/ ClearContext

SpecLife == InitLife /\ [][NextLife]_vars

(***************************************************************************)
(* A Registry<T> called directly (registry.rs).                            *)
(***************************************************************************)
\* No compile is called and no context is shared.
CompileIdle ==
    /\ input = Executor(EXEC)
    /\ context = EmptyContext
    /\ strong = 0
    /\ owner = FALSE
    /\ trees = 0
    /\ pc = "call"
    /\ nodes = <<>>
    /\ code = <<>>
    /\ node_offset = 0
    /\ node_count = 0
    /\ result = Pending
    /\ tree = NoTree
    /\ paths = <<>>
    /\ emitted = <<>>

lifeVars == <<context, strong, owner, trees>>

InitReg == CompileIdle /\ RegistryIdle /\ IdentIdle

RegInsert ==
    \E id \in RegIds, v \in RegValues :
        /\ Len(registry.keys) < MaxEntries
        /\ LET r == insert(registry, id, v)
           IN  /\ registry' = r.reg
               /\ regop' = RegOp("insert", id, v, r.result)
        /\ UNCHANGED <<compileVars, lifeVars, identVars>>

RegClear ==
    /\ registry' = clear(registry)
    /\ regop' = RegOp("clear", EXEC, 0, "Ok")
    /\ UNCHANGED <<compileVars, lifeVars, identVars>>

RegContains ==
    \E id \in RegIds :
        /\ regop' = RegOp("contains", id, 0, contains(registry, id))
        /\ UNCHANGED <<registry, compileVars, lifeVars, identVars>>

RegGetHandle ==
    \E id \in RegIds :
        /\ regop' = RegOp("get_handle", id, 0, get_handle(registry, id))
        /\ UNCHANGED <<registry, compileVars, lifeVars, identVars>>

RegGet ==
    \E handle \in RegHandles :
        /\ regop' = RegOp("get", EXEC, value(handle), get(registry, handle))
        /\ UNCHANGED <<registry, compileVars, lifeVars, identVars>>

RegGetDirect ==
    \E id \in RegIds :
        /\ regop' = RegOp("get_direct", id, 0, get_direct(registry, id))
        /\ UNCHANGED <<registry, compileVars, lifeVars, identVars>>

NextReg ==
    \/ RegInsert
    \/ RegClear
    \/ RegContains
    \/ RegGetHandle
    \/ RegGet
    \/ RegGetDirect

SpecReg == InitReg /\ [][NextReg]_vars

(***************************************************************************)
(* Identifier::from called on a string (identifier.rs).                    *)
(***************************************************************************)
InitIdent ==
    /\ CompileIdle
    /\ RegistryIdle
    /\ text \in Strings
    /\ ident = NoIdent

FromString ==
    /\ ident = NoIdent
    /\ ident' = From(text)
    /\ UNCHANGED <<text, compileVars, lifeVars, registryVars>>

NextIdent == FromString

SpecIdent == InitIdent /\ [][NextIdent]_vars

(***************************************************************************)
(* Vocabulary of the properties.                                           *)
(***************************************************************************)
\* compile has returned / has returned a BehaviourTree.
Returned == pc = "done"
Compiled == pc = "done" /\ result.ok

\* The instruction pairs of the returned stream, and the words of pair i
\* (word indices of the stream count from 0, TLA+ sequences from 1).
Pairs == 1..Len(emitted)
Word0(i) == tree.code[2 * i - 1]
Word1(i) == tree.code[2 * i]
WordIndex(i) == 2 * (i - 1)

\* The tag of a variant, as section 6 of the specification lists them.
TagOf(kind) ==
    CASE kind = "Sequence" -> 1
      [] kind = "Fallback" -> 2
      [] kind = "Parallel" -> 3
      [] kind = "Decorator" -> 4
      [] kind = "Executor" -> 5

\* The operand field of a word is what lies below the tag byte.
OperandLimit == 2 ^ TAG_SHIFT
FitsOperand(n) == n < OperandLimit
TagField(w) == w \div OperandLimit
OperandField(w) == w % OperandLimit

\* The pairs that encode the children of the node pair i encodes.
ChildPairs(i) ==
    { j \in Pairs :
        /\ Len(emitted[j].path) = Len(emitted[i].path) + 1
        /\ SubSeq(emitted[j].path, 1, Len(emitted[i].path)) = emitted[i].path }

\* The word index at which the pairs of pair i's children begin.
ChildrenBegin(i) ==
    WordIndex(CHOOSE j \in ChildPairs(i) : \A k \in ChildPairs(i) : j <= k)

(***************************************************************************)
(* C1: in every successfully compiled stream, the second word of every     *)
(* Sequence, Fallback, Parallel or Decorator pair is the word index at     *)
(* which the pairs of that node's own children begin.                      *)
(* The code adds the length of the pending work list to the offset, so     *)
(* the statement fails as soon as such a node is popped while a sibling    *)
(* is still pending.                                                       *)
(***************************************************************************)
OrigC1 ==
    Compiled =>
        \A i \in Pairs :
            (emitted[i].kind # "Executor" /\ ChildPairs(i) # {})
                => Word1(i) = ChildrenBegin(i)

(***************************************************************************)
(* C2: in every successfully compiled stream the first word of every pair  *)
(* has the node's tag in its high byte and the operand (child count or     *)
(* resolved handle value) in its remaining 24 bits, and the second word    *)
(* of every Executor pair is 0.                                            *)
(* The code accepts a handle with a bit at or above bit 24 (ID_MASK only   *)
(* covers bits 12..15) and ORs it into the tag byte.                       *)
(***************************************************************************)
OrigC2 ==
    Compiled =>
        \A i \in Pairs :
            /\ TagField(Word0(i)) = TagOf(emitted[i].kind)
            /\ OperandField(Word0(i)) = emitted[i].operand
            /\ emitted[i].kind = "Executor" => Word1(i) = 0

(***************************************************************************)
(* C3: a Sequence, Fallback or Parallel node with one or more children     *)
(* that is reached fails with TooManyChildNodes if its child count does    *)
(* not fit the operand bits, and is accepted and emitted if it does.       *)
(* The code rejects every count with one of bits 12..15 set: 4096          *)
(* children fit 24 bits and are refused.                                   *)
(***************************************************************************)
ReachedControl ==
    /\ pc = "loop"
    /\ Len(nodes) > 0
    /\ Top.kind \in ControlKinds
    /\ Len(Top.children) >= 1

OrigC3 ==
    [][ ReachedControl =>
            IF FitsOperand(Len(Top.children))
            THEN /\ pc' = "loop"
                 /\ result' = Pending
                 /\ Len(code') = Len(code) + NODE_SIZE
                 /\ emitted' = Append(emitted,
                        Emitted(TopPath, Top.kind, Len(Top.children)))
            ELSE /\ pc' = "done"
                 /\ result' = Err("TooManyChildNodes") ]_vars

(***************************************************************************)
(* C4: a Decorator or Executor whose name resolves to a handle h that      *)
(* does not fit the operand field fails with UnencodableRegistryHandle     *)
(* carrying the node's identifier and registry_index = h, and a handle     *)
(* placed in an emitted word is never truncated or altered.                *)
(* The code accepts h = 2^24 and emits a word whose operand field is 0.    *)
(***************************************************************************)
\* The registry a node's name is resolved against, and its handle there.
ResolvedHandle(node) ==
    IF node.kind = "Decorator"
    THEN get_decorator_handle(context, node.name)
    ELSE get_executor_handle(context, node.name)

ReachedResolved ==
    /\ pc = "loop"
    /\ Len(nodes) > 0
    /\ Top.kind \in {"Decorator", "Executor"}
    /\ ResolvedHandle(Top).some

OrigC4 ==
    [][ ReachedResolved =>
            LET h == value(ResolvedHandle(Top))
            IN  /\ ~FitsOperand(h) =>
                       /\ pc' = "done"
                       /\ result' = UnencodableRegistryHandle(Top.name, h)
                /\ Len(code') > Len(code) =>
                       OperandField(code'[Len(code) + 1]) = h ]_vars

(***************************************************************************)
(* C5: compile on a tree whose outermost node is not Root fails with       *)
(* InitialNonRootNode whatever the node's children are, whether or not     *)
(* its names are registered, and whether or not the context is live.       *)
(***************************************************************************)
ThmC5 ==
    (Returned /\ input.kind # "Root")
        => /\ result = Err("InitialNonRootNode")
           /\ tree = NoTree
           /\ emitted = <<>>

\* A Decorator with registered names, passed directly, has been refused.
WitC5 ==
    /\ Returned
    /\ input = Decorator(DECORATE, Executor(EXEC))
    /\ context = RegisteredContext(0)
    /\ result = Err("InitialNonRootNode")

(***************************************************************************)
(* C6 as claimed: for any authored tree, compile with a context whose      *)
(* owner has already released it fails with NonExistentContext and         *)
(* constructs no artifact.  A tree whose outermost node is not Root is     *)
(* refused with InitialNonRootNode before the reference is upgraded.       *)
(***************************************************************************)
ReleasedRefused ==
    /\ pc' = "done"
    /\ result' = Err("NonExistentContext")
    /\ tree' = NoTree
    /\ code' = <<>>
    /\ strong' = 0

OrigC6 == [][ (pc = "call" /\ strong = 0) => ReleasedRefused ]_vars

(***************************************************************************)
(* C6 amended: for any authored tree whose outermost node is Root,         *)
(* compile with a context whose owner has already released it fails with   *)
(* NonExistentContext, constructs no artifact and takes no hold on the     *)
(* context.                                                                *)
(***************************************************************************)
ThmC6 == [][ (pc = "call" /\ strong = 0 /\ input.kind = "Root") => ReleasedRefused ]_vars

\* Root -> Decorator(Executor) met a released context.
WitC6 ==
    /\ Returned
    /\ strong = 0
    /\ input = Root(Decorator(DECORATE, Executor(EXEC)))
    /\ result = Err("NonExistentContext")

(***************************************************************************)
(* C7: with a live context, compile of Root(c) returns NoNodes exactly     *)
(* when the work list is exhausted without an error and with zero nodes    *)
(* emitted; Root wrapping a Sequence, Fallback or Parallel with no         *)
(* children returns NoNodes; no BehaviourTree with node_count = 0 is       *)
(* returned.                                                               *)
(***************************************************************************)
IsEmptyControl(node) == node.kind \in ControlKinds /\ Len(node.children) = 0

ThmC7 ==
    /\ []( (Returned /\ input.kind = "Root" /\ strong >= 1) =>
              /\ IsEmptyControl(input.children[1]) => result = Err("NoNodes")
              /\ result.ok => (tree.node_count > 0 /\ tree.node_count = node_count)
              /\ ~result.ok => tree = NoTree )
    /\ [][ (strong >= 1 /\ pc # "done") =>
              ( result' = Err("NoNodes")
                  <=> (pc = "loop" /\ Len(nodes) = 0 /\ node_count = 0) ) ]_vars

\* Root -> Fallback[] has returned NoNodes.
WitC7 ==
    /\ Returned
    /\ strong = 1
    /\ input = Root(Fallback(<<>>))
    /\ result = Err("NoNodes")
    /\ nodes = <<>>

(***************************************************************************)
(* C8: a tree whose outermost node is Root and that holds another Root     *)
(* below it, compiled against a live context in which every Decorator /    *)
(* Executor name resolves and every child count and handle is encodable    *)
(* (fits the operand field), fails with RootNodeInTree.                    *)
(* Because of the mask of C3 / C4 a sibling whose handle is 4096 is        *)
(* refused with UnencodableRegistryHandle before the Root is reached.      *)
(***************************************************************************)
RECURSIVE HasRoot(_)
HasRoot(t) == t.kind = "Root" \/ \E i \in 1..Len(t.children) : HasRoot(t.children[i])

RECURSIVE NamesResolve(_)
NamesResolve(t) ==
    /\ t.kind \in {"Decorator", "Executor"} => ResolvedHandle(t).some
    /\ \A i \in 1..Len(t.children) : NamesResolve(t.children[i])

RECURSIVE AllEncodable(_)
AllEncodable(t) ==
    /\ t.kind \in ControlKinds => FitsOperand(Len(t.children))
    /\ (t.kind \in {"Decorator", "Executor"} /\ ResolvedHandle(t).some)
           => FitsOperand(value(ResolvedHandle(t)))
    /\ \A i \in 1..Len(t.children) : AllEncodable(t.children[i])

OrigC8 ==
    ( /\ Returned
      /\ input.kind = "Root"
      /\ strong >= 1
      /\ HasRoot(input.children[1])
      /\ NamesResolve(input.children[1])
      /\ AllEncodable(input.children[1]) )
        => result = Err("RootNodeInTree")

(***************************************************************************)
(* C9: an Executor that is reached fails with UnknownExecutor carrying     *)
(* its identifier exactly when that identifier is not a key of the         *)
(* executor registry, and a Decorator that is reached fails with           *)
(* UnknownDecorator carrying its identifier exactly when that identifier   *)
(* is not a key of the decorator registry; a name that is a key of the     *)
(* other registry only is unknown.                                         *)
(***************************************************************************)
IsKey(reg, id) == \E i \in 1..Len(reg.keys) : reg.keys[i] = id

ThmC9 ==
    [][ /\ Popping("Executor") =>
              IF IsKey(context.executors, Top.name)
              THEN result'.err \notin {"UnknownExecutor", "UnknownDecorator"}
              ELSE pc' = "done" /\ result' = ErrId("UnknownExecutor", Top.name)
        /\ Popping("Decorator") =>
              IF IsKey(context.decorators, Top.name)
              THEN result'.err \notin {"UnknownExecutor", "UnknownDecorator"}
              ELSE pc' = "done" /\ result' = ErrId("UnknownDecorator", Top.name)
        /\ (result.err = "Pending" /\ result'.err \in {"UnknownExecutor", "UnknownDecorator"})
              => (Popping("Executor") \/ Popping("Decorator")) ]_vars

\* "exec" is a key of the decorator registry only: the Executor is unknown.
WitC9 ==
    /\ Returned
    /\ context = SwappedContext
    /\ input = Root(Sequence(<<Executor(EXEC)>>))
    /\ result = ErrId("UnknownExecutor", EXEC)

(***************************************************************************)
(* C10: for every n >= 1 in the encodable range and every control variant  *)
(* C, compiling Root -> C(n registered Executors) against a live context   *)
(* succeeds with node_count = n + 1 and the stream                         *)
(* <<tag(C)<<24 | n, 2>> followed by n pairs (tag(Executor)<<24 | handle,  *)
(* 0); hence the streams of the three variants differ in the tag byte of   *)
(* the first word only.                                                    *)
(* Because of the mask of C3 / C4 the compilation fails for n = 4096 and   *)
(* for an Executor whose handle is 4096.                                   *)
(***************************************************************************)
\* Root -> C(n Executors, each a key of the executor registry), n >= 1.
ControlOfExecutors(t) ==
    /\ t.kind = "Root"
    /\ t.children[1].kind \in ControlKinds
    /\ Len(t.children[1].children) >= 1
    /\ FitsOperand(Len(t.children[1].children))
    /\ \A i \in 1..Len(t.children[1].children) :
          /\ t.children[1].children[i].kind = "Executor"
          /\ IsKey(context.executors, t.children[1].children[i].name)

\* The stream C10 describes; the children are emitted last child first.
StreamC10(c) ==
    LET n == Len(c.children)
        h(k) == value(get_executor_handle(context, c.children[n + 1 - k].name))
    IN  [w \in 1..(2 * (n + 1)) |->
            IF w = 1 THEN BitOr(Shl(TagOf(c.kind), 24), n)
            ELSE IF w = 2 THEN 2
            ELSE IF w % 2 = 1 THEN BitOr(Shl(TagOf("Executor"), 24), h((w - 1) \div 2))
            ELSE 0]

OrigC10 ==
    (Returned /\ strong >= 1 /\ ControlOfExecutors(input))
        => /\ result.ok
           /\ tree.node_count = Len(input.children[1].children) + 1
           /\ tree.code = StreamC10(input.children[1])

(***************************************************************************)
(* C11: on every successful compile node_count is the number of nodes of   *)
(* the authored tree that are neither the Root nor a Sequence / Fallback / *)
(* Parallel with zero children, and the stream holds 2 x node_count words; *)
(* throughout the traversal the emitted code holds 2 x node_count words.   *)
(***************************************************************************)
RECURSIVE CountEmitting(_), CountEmittingIn(_)
\* The nodes of t that are neither a Root nor a control node without children.
CountEmitting(t) ==
    (IF t.kind = "Root" \/ IsEmptyControl(t) THEN 0 ELSE 1) + CountEmittingIn(t.children)

CountEmittingIn(ts) ==
    IF ts = <<>> THEN 0 ELSE CountEmitting(Head(ts)) + CountEmittingIn(Tail(ts))

ThmC11 ==
    /\ Len(code) = 2 * node_count
    /\ Compiled =>
          /\ tree.node_count = CountEmitting(input)
          /\ Len(tree.code) = 2 * tree.node_count

\* A compile that pruned one of two children.
WitC11 ==
    /\ Compiled
    /\ input = Root(Sequence(<<Executor(EXEC), Sequence(<<>>)>>))
    /\ tree.node_count = 2
    /\ Len(tree.code) = 4

(***************************************************************************)
(* C16: in every successfully compiled stream the child-count operand of   *)
(* every Sequence / Fallback / Parallel header is the number of that       *)
(* node's children that have a pair in the stream, and the child block it  *)
(* addresses lies inside the stream (offset + 2 x count <= length), also   *)
(* when some children are control nodes without children.                  *)
(* The code writes children.len() into the header before the children are  *)
(* visited, so a pruned child is still counted.                            *)
(***************************************************************************)
OrigC16 ==
    Compiled =>
        \A i \in Pairs :
            emitted[i].kind \in ControlKinds =>
                /\ OperandField(Word0(i)) = Cardinality(ChildPairs(i))
                /\ Word1(i) + 2 * OperandField(Word0(i)) <= Len(tree.code)

(***************************************************************************)
(* C17: pairs are emitted in the order nodes leave the last-in/first-out   *)
(* work list: a depth-first pre-order walk from Root's child in which the  *)
(* children of a control node are visited last authored child first, a     *)
(* child's whole subtree before any earlier sibling, each node once; the   *)
(* first error met in this order is the error compile returns.             *)
(***************************************************************************)
\* What popping node t alone decides: its error, or Ok.
NodeOutcome(t) ==
    CASE t.kind = "Root" -> Err("RootNodeInTree")
      [] t.kind \in ControlKinds ->
            IF Len(t.children) > 0 /\ TooManyChildNodes(Len(t.children))
            THEN Err("TooManyChildNodes") ELSE Ok
      [] t.kind = "Decorator" ->
            IF ~ResolvedHandle(t).some THEN ErrId("UnknownDecorator", t.name)
            ELSE IF MaskedHandle(value(ResolvedHandle(t))) # value(ResolvedHandle(t))
            THEN UnencodableRegistryHandle(t.name, value(ResolvedHandle(t)))
            ELSE Ok
      [] t.kind = "Executor" ->
            IF ~ResolvedHandle(t).some THEN ErrId("UnknownExecutor", t.name)
            ELSE IF MaskedHandle(value(ResolvedHandle(t))) # value(ResolvedHandle(t))
            THEN UnencodableRegistryHandle(t.name, value(ResolvedHandle(t)))
            ELSE Ok

\* The pair node t at path p contributes (none for a control node without
\* children).
OwnPair(t, p) ==
    IF IsEmptyControl(t) THEN <<>>
    ELSE << Emitted(p, t.kind,
                    IF t.kind \in ControlKinds THEN Len(t.children)
                    ELSE value(ResolvedHandle(t))) >>

\* The pre-order walk with children taken from the last to the first: the
\* pairs met up to the first error, and that error (Ok when there is none).
RECURSIVE Walk(_, _), WalkChildren(_, _, _)
Walk(t, p) ==
    IF NodeOutcome(t) # Ok
    THEN [out |-> <<>>, err |-> NodeOutcome(t)]
    ELSE LET below == WalkChildren(t.children, p, Len(t.children))
         IN  [out |-> OwnPair(t, p) \o below.out, err |-> below.err]

\* The children ts[i], ts[i-1], .. ts[1] of the node at path p, in that order.
WalkChildren(ts, p, i) ==
    IF i = 0 THEN [out |-> <<>>, err |-> Ok]
    ELSE LET this == Walk(ts[i], Append(p, i))
         IN  IF this.err # Ok THEN this
             ELSE LET others == WalkChildren(ts, p, i - 1)
                  IN  [out |-> this.out \o others.out, err |-> others.err]

IsPrefix(a, b) == Len(a) <= Len(b) /\ a = SubSeq(b, 1, Len(a))

ThmC17 ==
    (input.kind = "Root" /\ pc # "call" /\ result.err # "NonExistentContext") =>
        LET walk == Walk(input.children[1], <<>>)
        IN  /\ IsPrefix(emitted, walk.out)
            /\ \A i, j \in Pairs : emitted[i].path = emitted[j].path => i = j
            /\ Returned =>
                  /\ emitted = walk.out
                  /\ walk.err # Ok => result = walk.err
                  /\ walk.err = Ok => result \in {Ok, Err("NoNodes")}

\* The nested Root, authored last, is met before the unknown Executor
\* authored first.
WitC17 ==
    /\ Returned
    /\ context = EmptyContext
    /\ strong = 1
    /\ input = Root(Sequence(<<Executor(EXEC), Root(Executor(EXEC))>>))
    /\ result = Err("RootNodeInTree")
    /\ Len(emitted) = 1

(***************************************************************************)
(* C12.                                                                    *)
(***************************************************************************)
\* The holders the caller has: the original Rc and the trees not yet dropped.
Holders == (IF owner THEN 1 ELSE 0) + trees

\* A compile returns an error in this step.
ReturnsError == pc # "done" /\ pc' = "done" /\ result' # Ok

\* C12: over any sequence of compile calls, tree drops and the drop of the
\* original Rc, the context is live in every state in which a tree compiled
\* from it exists, whether or not the original Rc is still held; the context
\* is destroyed only by a step in which a holder releases it and after which
\* neither the original Rc nor any tree is left; and a compile that returns
\* an error leaves the holders and the strong count as they were at the call.
ThmC12 ==
    /\ [](trees >= 1 => strong >= 1)
    /\ [](owner => strong >= 1)
    /\ [][(strong > 0 /\ strong' = 0) =>
            /\ (owner /\ ~owner') \/ trees' = trees - 1
            /\ Holders = 1
            /\ Holders' = 0]_vars
    /\ [][ReturnsError =>
            /\ Holders' = Holders
            /\ strong' = Holders]_vars

\* A second compile fails after the original Rc was dropped, while the tree
\* of the first compile is the only holder.
WitC12 ==
    /\ Returned
    /\ result = Err("NoNodes")
    /\ ~owner
    /\ trees = 1
    /\ strong = 1

(***************************************************************************)
(* C13, C14.                                                               *)
(***************************************************************************)
\* The step is a call of insert.
InsertStep == regop'.op = "insert"

\* The step is a call of insert that returned Ok.
InsertOkStep == InsertStep /\ regop'.result = "Ok"

\* The handle at index n.
HandleAt(n) == Some(n)

\* C13: insert(id, value) on a registry that contains id returns
\* EntryAlreadyExists and leaves keys and values as they were; on a registry
\* that does not contain id it returns Ok and appends id to keys and value
\* to values, at the same new last index.  After any sequence of insert and
\* clear calls the keys are pairwise distinct and keys and values have the
\* same length.
ThmC13 ==
    /\ [](/\ Len(registry.keys) = Len(registry.values)
          /\ \A i, j \in 1..Len(registry.keys) :
                registry.keys[i] = registry.keys[j] => i = j)
    /\ [][InsertStep =>
            IF contains(registry, regop'.id)
            THEN /\ regop'.result = "EntryAlreadyExists"
                 /\ registry'.keys = registry.keys
                 /\ registry'.values = registry.values
            ELSE /\ regop'.result = "Ok"
                 /\ registry'.keys = Append(registry.keys, regop'.id)
                 /\ registry'.values = Append(registry.values, regop'.arg)
                 /\ Len(registry'.keys) = Len(registry'.values)]_vars

\* insert of a registered id with another value has just been refused.
WitC13 ==
    /\ regop.op = "insert"
    /\ regop.id = EXEC
    /\ regop.arg = 13
    /\ regop.result = "EntryAlreadyExists"
    /\ registry.keys = <<EXEC>>
    /\ registry.values = <<12>>

\* C14: as long as clear is not called, every step (an insert that succeeds
\* or fails, or a lookup) leaves get_handle(id), get(handle) and
\* get_direct(id) of every registered id as they were; a successful
\* insert(id, v) makes get_handle(id) the handle whose value is the number
\* of entries registered before it, and get(handle) and get_direct(id)
\* return v; so in every state the i-th registered id has handle i - 1 and
\* its own value.  After clear, contains(id) is false and get_handle(id) is
\* absent for every id, and get(h) is absent for every handle.
ThmC14 ==
    /\ [](\A i \in 1..Len(registry.keys) :
            /\ get_handle(registry, registry.keys[i]) = HandleAt(i - 1)
            /\ value(get_handle(registry, registry.keys[i])) = i - 1
            /\ get(registry, HandleAt(i - 1)) = SomeValue(registry.values[i])
            /\ get_direct(registry, registry.keys[i]) = SomeValue(registry.values[i]))
    /\ [][regop'.op # "clear" =>
            \A id \in RegIds : contains(registry, id) =>
                LET handle == get_handle(registry, id)
                IN  /\ get_handle(registry', id) = handle
                    /\ get(registry', handle) = get(registry, handle)
                    /\ get_direct(registry', id) = get_direct(registry, id)]_vars
    /\ [][InsertOkStep =>
            /\ get_handle(registry', regop'.id) = HandleAt(Len(registry.keys))
            /\ get(registry', HandleAt(Len(registry.keys))) = SomeValue(regop'.arg)
            /\ get_direct(registry', regop'.id) = SomeValue(regop'.arg)]_vars
    /\ [][regop'.op = "clear" =>
            /\ \A id \in RegIds :
                  /\ ~contains(registry', id)
                  /\ get_handle(registry', id) = None
                  /\ get_direct(registry', id) = NoValue
            /\ \A handle \in RegHandles : get(registry', handle) = NoValue]_vars

\* get_direct of the first of two registered ids returns its value, after
\* the second id was registered with the other value.
WitC14 ==
    /\ registry.keys = <<EXEC, DECORATE>>
    /\ registry.values = <<12, 13>>
    /\ regop.op = "get_direct"
    /\ regop.id = EXEC
    /\ regop.result = SomeValue(12)

(***************************************************************************)
(* C15.                                                                    *)
(***************************************************************************)
\* The grammar: s without one leading ':'.
Stripped(s) == IF Len(s) >= 1 /\ s[1] = ":" THEN Tail(s) ELSE s

\* The positions of ':' in s.
Dividers(s) == { i \in 1..Len(s) : s[i] = ":" }

\* The grammar's reading of s.
Grammar(s) ==
    LET rest == Stripped(s)
    IN  IF Dividers(rest) = {}
        THEN [scope |-> DEFAULT_NAMESPACE_CHARS, id |-> rest]
        ELSE LET first == CHOOSE i \in Dividers(rest) : \A j \in Dividers(rest) : i <= j
                 after == [i \in 1..(Len(rest) - first) |->
                              IF rest[first + i] = ":" THEN "_" ELSE rest[first + i]]
             IN  [scope |-> SubSeq(rest, 1, first - 1),
                  id |-> IF after = <<>> THEN DEFAULT_ID ELSE after]

\* C15: for every string s, Identifier::from(s) is the grammar's reading of
\* s: one leading ':' stripped; if a ':' remains, the scope is the part
\* before the first ':' and the id is everything after it with each further
\* ':' replaced by '_', an empty id replaced by "unknown"; if none remains,
\* the scope is the default namespace and the id is the remaining text.
ThmC15 == ident # NoIdent => ident = Grammar(text)

\* ":a:b" was parsed: the leading ':' stripped, scope "a", id "b".
WitC15 ==
    /\ text = <<":", "a", ":", "b">>
    /\ ident = Identifier(<<"a">>, <<"b">>)

====
